---- MODULE Spec2Model ----
(***************************************************************************)
(* Model of the in-memory bank ledger of src/bank/bank.py (class Bank).    *)
(*                                                                         *)
(* State: the registry `accounts` (identifier -> account record) and the   *)
(* last wall-clock reading `clock`.  Two more variables record the most    *)
(* recent call so that its contract can be stated: `last` holds the method *)
(* called, its arguments, the exception it raised (or OK) and the value it *)
(* returned, and `before` holds the registry as it was when that call was  *)
(* made.  One action per public method of Bank, parameterised by the       *)
(* call's arguments.  The "message" strings of the returned dictionaries   *)
(* are not modelled; every other returned field is.                        *)
(*                                                                         *)
(* Amounts and balances are integers, as in the demo script; wall-clock    *)
(* readings are abstract ticks drawn from Times.                           *)
(*                                                                         *)
(* Scaling: the code has MAX_ACCOUNTS = 10000 and draws the identifier     *)
(* suffix with randint(0, 9999), i.e. from exactly MAX_ACCOUNTS values.    *)
(* Both are scaled together by Scale: MAX_ACCOUNTS = Scale and the suffix  *)
(* is drawn from 0 .. Scale-1.                                             *)
(***************************************************************************)
EXTENDS Integers, Sequences, FiniteSets, TLC

VARIABLES accounts, clock, last, before

vars == <<accounts, clock, last, before>>

----------------------------------------------------------------------------
(* Bounds of the model *)

\* scaled size of the registry limit and of the suffix space (10000 in the code)
Scale == 2

\* number of transaction records in the whole registry from which on the
\* model performs no further successful deposit, withdrawal or transfer
MaxRecords == 4

----------------------------------------------------------------------------
(* Class constants of Bank *)

MAX_ACCOUNTS == Scale

MIN_BALANCE == 100

MIN_AGE == 18

MAX_AGE == 80

ACCOUNT_PREFIX == "230406"

\* bounds of the pin range, bank.py lines 45 and 92
PIN_LO == 1000

PIN_HI == 9999

\* "no exception raised"
OK == "ok"

\* Python's None, for the optional pin of account_creation: an absent pin is
\* the empty tuple, a supplied pin n is <<n>>
None == <<>>

----------------------------------------------------------------------------
(* Inputs the environment may supply *)

Names == {"Alice"}

OpeningBalances == {50, 100}

Amounts == {0, 50}

DobInputs == {"1995-05-12", "2015-01-01", "31-12-2000"}

\* values of datetime.date.today(), as <<year, month, day>>
Todays == {<<2026, 11, 4>>}

\* values of datetime.datetime.now()
Times == {0, 1}

\* the last of them
LastTick == CHOOSE t \in Times : \A u \in Times : u <= t

\* pin argument of account_creation
PinArgs == {None, <<999>>, <<1234>>}

\* values random.randint(1000, 9999) is let to return
GeneratedPins == {PIN_LO}

\* pin argument of the pin-gated operations
Pins == {PIN_LO, 1234}

----------------------------------------------------------------------------
(* str(n).zfill(width) for n >= 0 *)

RECURSIVE zfill(_, _)
zfill(s, width) ==
    IF Len(s) >= width THEN s ELSE zfill("0" \o s, width)

\* the identifier built from a suffix, bank.py lines 38-39
AccountNumber(suffix) == ACCOUNT_PREFIX \o zfill(ToString(suffix), 4)

\* values of random.randint(0, 9999), scaled
Suffixes == 0 .. (Scale - 1)

\* identifiers a caller may name: every identifier the bank can issue
AccountArgs == {AccountNumber(n) : n \in Suffixes}

----------------------------------------------------------------------------
(* datetime.datetime.strptime(dob, "%Y-%m-%d").date() *)

Digits == {"0", "1", "2", "3", "4", "5", "6", "7", "8", "9"}

DigitVal(c) == CHOOSE n \in 0..9 : ToString(n) = c

\* character i of s, or "" past the end
Ch(s, i) == IF i >= 1 /\ i <= Len(s) THEN SubSeq(s, i, i) ELSE ""

IsLeap(y) == (y % 4 = 0) /\ ((y % 100 # 0) \/ (y % 400 = 0))

DaysInMonth(y, m) ==
    IF m = 2 THEN (IF IsLeap(y) THEN 29 ELSE 28)
    ELSE IF m \in {4, 6, 9, 11} THEN 30 ELSE 31

\* %m is the regex 1[0-2]|0[1-9]|[1-9]; it must be followed by "-".
\* Result <<month, position after the "-">>, or <<>> when nothing matches.
MatchMonth(s, p) ==
    LET c1 == Ch(s, p)
        c2 == Ch(s, p + 1)
        c3 == Ch(s, p + 2)
    IN  IF c1 = "1" /\ c2 \in {"0", "1", "2"} /\ c3 = "-"
          THEN <<10 + DigitVal(c2), p + 3>>
        ELSE IF c1 = "0" /\ c2 \in (Digits \ {"0"}) /\ c3 = "-"
          THEN <<DigitVal(c2), p + 3>>
        ELSE IF c1 \in (Digits \ {"0"}) /\ c2 = "-"
          THEN <<DigitVal(c1), p + 2>>
        ELSE <<>>

\* %d is the regex 3[01]|[12]\d|0[1-9]|[1-9]| [1-9]; the first alternative
\* that matches is taken.  Result <<day, position after it>>, or <<>>.
MatchDay(s, p) ==
    LET c1 == Ch(s, p)
        c2 == Ch(s, p + 1)
    IN  IF c1 = "3" /\ c2 \in {"0", "1"}
          THEN <<30 + DigitVal(c2), p + 2>>
        ELSE IF c1 \in {"1", "2"} /\ c2 \in Digits
          THEN <<10 * DigitVal(c1) + DigitVal(c2), p + 2>>
        ELSE IF c1 = "0" /\ c2 \in (Digits \ {"0"})
          THEN <<DigitVal(c2), p + 2>>
        ELSE IF c1 \in (Digits \ {"0"})
          THEN <<DigitVal(c1), p + 1>>
        ELSE IF c1 = " " /\ c2 \in (Digits \ {"0"})
          THEN <<DigitVal(c2), p + 2>>
        ELSE <<>>

\* the parsed date <<year, month, day>>, or <<>> when strptime raises
\* ValueError (no match, unconverted data, or no such calendar date)
strptime(s) ==
    IF ~(\A i \in 1..4 : Ch(s, i) \in Digits) \/ Ch(s, 5) # "-" THEN <<>>
    ELSE
      LET y == 1000 * DigitVal(Ch(s, 1)) + 100 * DigitVal(Ch(s, 2))
                 + 10 * DigitVal(Ch(s, 3)) + DigitVal(Ch(s, 4))
          mm == MatchMonth(s, 6)
      IN  IF mm = <<>> THEN <<>>
          ELSE
            LET dd == MatchDay(s, mm[2])
            IN  IF dd = <<>> THEN <<>>
                ELSE IF dd[2] # Len(s) + 1 THEN <<>>
                ELSE IF y < 1 \/ dd[1] > DaysInMonth(y, mm[1]) THEN <<>>
                ELSE <<y, mm[1], dd[1]>>

\* age = today.year - dob.year - ((today.month, today.day) < (dob.month, dob.day))
\* slip: the birthday adjustment is left out
Age_year_difference(today, dob_date) == today[1] - dob_date[1]

\* bank.py 82-84: the year difference, less one when today's (month, day)
\* comes before the birthday's
Age(today, dob_date) ==
    today[1] - dob_date[1]
      - (IF today[2] < dob_date[2]
            \/ (today[2] = dob_date[2] /\ today[3] < dob_date[3])
         THEN 1 ELSE 0)

----------------------------------------------------------------------------
(* Outcome of a call *)

\* the call op(args) raised the exception err
Raised(op, args, err) == [op |-> op, args |-> args, err |-> err, ret |-> None]

\* the call op(args) returned ret
Returned(op, args, ret) == [op |-> op, args |-> args, err |-> OK, ret |-> ret]

----------------------------------------------------------------------------
(* Helpers of Bank *)

\* the values datetime.datetime.now() can return: the clock does not go back
now == {t \in Times : t >= clock}

\* slip: no retry on collision
generate_account_number_no_retry == AccountArgs

\* the identifiers the retry loop can return: prefix + suffix, not in the registry
generate_account_number == {id \in AccountArgs : id \notin DOMAIN accounts}

\* the values generate_pin can return
generate_pin == GeneratedPins

\* slip: the record is put at the head of the history
transaction_log_prepends(accts, account, type_of_txn, amount, time, note) ==
    [accts EXCEPT ![account].transaction_history =
        <<[type |-> type_of_txn, amount |-> amount,
           time |-> time, note |-> note]>> \o @]

\* the registry accts after appending one transaction to account's history
transaction_log(accts, account, type_of_txn, amount, time, note) ==
    [accts EXCEPT ![account].transaction_history =
        Append(@, [type |-> type_of_txn, amount |-> amount,
                   time |-> time, note |-> note])]

\* each validator yields the exception it raises, or OK
validate_pin(account, pin) ==
    IF pin # accounts[account].pin THEN "InvalidPinError" ELSE OK

validate_account(account) ==
    IF account \notin DOMAIN accounts THEN "AccountNotFound" ELSE OK

\* slip: an amount of zero passes
validate_amount_allows_zero(amount) ==
    IF amount < 0 THEN "InvalidAmountError" ELSE OK

validate_amount(amount) ==
    IF amount <= 0 THEN "InvalidAmountError" ELSE OK

\* slip: the balance itself, not the balance after the debit, is compared
validate_balance_ignores_amount(account, amount) ==
    IF accounts[account].balance < MIN_BALANCE
    THEN "InsufficientBalanceError" ELSE OK

\* slip: a debit down to exactly MIN_BALANCE is refused
validate_balance_off_by_one(account, amount) ==
    IF accounts[account].balance - amount <= MIN_BALANCE
    THEN "InsufficientBalanceError" ELSE OK

validate_balance(account, amount) ==
    IF accounts[account].balance - amount < MIN_BALANCE
    THEN "InsufficientBalanceError" ELSE OK

\* number of transaction records held by the whole registry
RECURSIVE SumLen(_, _)
SumLen(accts, ids) ==
    IF ids = {} THEN 0
    ELSE LET id == CHOOSE x \in ids : TRUE
         IN  Len(accts[id].transaction_history) + SumLen(accts, ids \ {id})

TotalRecords == SumLen(accounts, DOMAIN accounts)

----------------------------------------------------------------------------
(* account_creation *)

\* slip: the limit is tested with > instead of ==
account_creation_checks_limit_gt(balance, dob, today) ==
    IF Cardinality(DOMAIN accounts) > MAX_ACCOUNTS THEN "LimitError"
    ELSE IF strptime(dob) = <<>> THEN "InvalidDateFormatError"
    ELSE IF ~(MIN_AGE <= Age(today, strptime(dob))
              /\ Age(today, strptime(dob)) <= MAX_AGE) THEN "InvalidAgeError"
    ELSE IF balance < MIN_BALANCE THEN "InvalidAmountError"
    ELSE OK

\* slip: the opening balance is tested before the age
account_creation_checks_amount_before_age(balance, dob, today) ==
    IF Cardinality(DOMAIN accounts) = MAX_ACCOUNTS THEN "LimitError"
    ELSE IF strptime(dob) = <<>> THEN "InvalidDateFormatError"
    ELSE IF balance < MIN_BALANCE THEN "InvalidAmountError"
    ELSE IF ~(MIN_AGE <= Age(today, strptime(dob))
              /\ Age(today, strptime(dob)) <= MAX_AGE) THEN "InvalidAgeError"
    ELSE OK

\* the exception account_creation raises for these arguments, or OK
account_creation_checks(balance, dob, today) ==
    IF Cardinality(DOMAIN accounts) = MAX_ACCOUNTS THEN "LimitError"
    ELSE IF strptime(dob) = <<>> THEN "InvalidDateFormatError"
    ELSE IF ~(MIN_AGE <= Age(today, strptime(dob))
              /\ Age(today, strptime(dob)) <= MAX_AGE) THEN "InvalidAgeError"
    ELSE IF balance < MIN_BALANCE THEN "InvalidAmountError"
    ELSE OK

\* slip: the range test of the pin is left out
effective_pin_keeps_any(pin) ==
    IF pin = None THEN generate_pin ELSE {pin[1]}

\* the pins account_creation can end up using for a pin argument
effective_pin(pin) ==
    IF pin = None \/ ~(PIN_LO <= pin[1] /\ pin[1] <= PIN_HI)
    THEN generate_pin ELSE {pin[1]}

\* slip: the opening deposit is stamped by a later reading of the clock
new_account_logs_later(name, balance, dob_date, pin, created_at) ==
    [account_holder |-> name,
     balance |-> balance,
     transaction_history |->
        << [type |-> "Deposit", amount |-> balance,
            time |-> created_at + 1, note |-> "Opening balance"] >>,
     creation_time |-> created_at,
     dob |-> dob_date,
     pin |-> pin]

\* the account record inserted by account_creation
new_account(name, balance, dob_date, pin, created_at) ==
    [account_holder |-> name,
     balance |-> balance,
     transaction_history |->
        << [type |-> "Deposit", amount |-> balance,
            time |-> created_at, note |-> "Opening balance"] >>,
     creation_time |-> created_at,
     dob |-> dob_date,
     pin |-> pin]

account_creation(name, balance, dob, pin, today) ==
    LET err == account_creation_checks(balance, dob, today)
        op == "account_creation"
        args == [name |-> name, balance |-> balance, dob |-> dob,
                 pin |-> pin, today |-> today]
    IN  IF err # OK
        THEN /\ last' = Raised(op, args, err)
             /\ before' = accounts
             /\ UNCHANGED <<accounts, clock>>
        ELSE \E p \in effective_pin(pin), account_number \in generate_account_number,
                created_at \in now :
               /\ accounts' =
                    [id \in DOMAIN accounts \cup {account_number} |->
                        IF id = account_number
                        THEN new_account(name, balance, strptime(dob), p, created_at)
                        ELSE accounts[id]]
               /\ clock' = created_at
               /\ before' = accounts
               /\ last' = Returned(op, args, [account_number |-> account_number,
                                               pin |-> p])

----------------------------------------------------------------------------
(* deposit, withdrawal, transfer *)

deposit_checks(account, pin, amount) ==
    IF validate_account(account) # OK THEN validate_account(account)
    ELSE IF validate_pin(account, pin) # OK THEN validate_pin(account, pin)
    ELSE validate_amount(amount)

\* slip: the deposit is not logged
deposit_apply_no_log(account, amount, time) ==
    [accounts EXCEPT ![account].balance = @ + amount]

\* slip: every account of the registry is credited
deposit_apply_credits_all(account, amount, time) ==
    LET credited == [id \in DOMAIN accounts |->
                        [accounts[id] EXCEPT !.balance = @ + amount]]
    IN  transaction_log(credited, account, "Deposit", amount, time, "Cash deposit")

\* the registry after the balance update and the log entry of deposit
deposit_apply(account, amount, time) ==
    LET credited == [accounts EXCEPT ![account].balance = @ + amount]
    IN  transaction_log(credited, account, "Deposit", amount, time, "Cash deposit")

deposit(account, pin, amount) ==
    LET err == deposit_checks(account, pin, amount)
        op == "deposit"
        args == [account |-> account, pin |-> pin, amount |-> amount]
    IN  IF err # OK
        THEN /\ last' = Raised(op, args, err)
             /\ before' = accounts
             /\ UNCHANGED <<accounts, clock>>
        ELSE \E time \in now :
               LET logged == deposit_apply(account, amount, time)
               IN  /\ TotalRecords < MaxRecords
                   /\ accounts' = logged
                   /\ clock' = time
                   /\ before' = accounts
                   /\ last' = Returned(op, args, [balance |-> logged[account].balance])

\* slip: the amount is validated before the pin
withdrawal_checks_amount_first(account, pin, amount) ==
    IF validate_account(account) # OK THEN validate_account(account)
    ELSE IF validate_amount(amount) # OK THEN validate_amount(amount)
    ELSE IF validate_pin(account, pin) # OK THEN validate_pin(account, pin)
    ELSE validate_balance(account, amount)

withdrawal_checks(account, pin, amount) ==
    IF validate_account(account) # OK THEN validate_account(account)
    ELSE IF validate_pin(account, pin) # OK THEN validate_pin(account, pin)
    ELSE IF validate_amount(amount) # OK THEN validate_amount(amount)
    ELSE validate_balance(account, amount)

\* slip: the record carries the new balance instead of the amount
withdrawal_apply_logs_balance(account, amount, time) ==
    LET debited == [accounts EXCEPT ![account].balance = @ - amount]
    IN  transaction_log(debited, account, "Withdrawal", debited[account].balance,
                        time, "Cash withdrawal")

\* the registry after the balance update and the log entry of withdrawal
withdrawal_apply(account, amount, time) ==
    LET debited == [accounts EXCEPT ![account].balance = @ - amount]
    IN  transaction_log(debited, account, "Withdrawal", amount, time,
                        "Cash withdrawal")

\* slip: the balance is debited before the sufficiency check raises
withdrawal_debits_before_check(account, pin, amount) ==
    LET err == withdrawal_checks(account, pin, amount)
        op == "withdrawal"
        args == [account |-> account, pin |-> pin, amount |-> amount]
    IN  IF err = "InsufficientBalanceError"
        THEN /\ last' = Raised(op, args, err)
             /\ accounts' = [accounts EXCEPT ![account].balance = @ - amount]
             /\ before' = accounts
             /\ UNCHANGED clock
        ELSE IF err # OK
        THEN /\ last' = Raised(op, args, err)
             /\ before' = accounts
             /\ UNCHANGED <<accounts, clock>>
        ELSE \E time \in now :
               LET logged == withdrawal_apply(account, amount, time)
               IN  /\ TotalRecords < MaxRecords
                   /\ accounts' = logged
                   /\ clock' = time
                   /\ before' = accounts
                   /\ last' = Returned(op, args, [balance |-> logged[account].balance])

withdrawal(account, pin, amount) ==
    LET err == withdrawal_checks(account, pin, amount)
        op == "withdrawal"
        args == [account |-> account, pin |-> pin, amount |-> amount]
    IN  IF err # OK
        THEN /\ last' = Raised(op, args, err)
             /\ before' = accounts
             /\ UNCHANGED <<accounts, clock>>
        ELSE \E time \in now :
               LET logged == withdrawal_apply(account, amount, time)
               IN  /\ TotalRecords < MaxRecords
                   /\ accounts' = logged
                   /\ clock' = time
                   /\ before' = accounts
                   /\ last' = Returned(op, args, [balance |-> logged[account].balance])

\* slip: the pin is validated against the destination account
transfer_checks_pin_of_destination(account1, account2, pin, amount) ==
    IF validate_account(account1) # OK THEN validate_account(account1)
    ELSE IF validate_account(account2) # OK THEN validate_account(account2)
    ELSE IF validate_pin(account2, pin) # OK THEN validate_pin(account2, pin)
    ELSE IF validate_amount(amount) # OK THEN validate_amount(amount)
    ELSE validate_balance(account1, amount)

transfer_checks(account1, account2, pin, amount) ==
    IF validate_account(account1) # OK THEN validate_account(account1)
    ELSE IF validate_account(account2) # OK THEN validate_account(account2)
    ELSE IF validate_pin(account1, pin) # OK THEN validate_pin(account1, pin)
    ELSE IF validate_amount(amount) # OK THEN validate_amount(amount)
    ELSE validate_balance(account1, amount)

\* slip: the credit goes to the source account
transfer_apply_credits_source(account1, account2, amount, time) ==
    LET debited == [accounts EXCEPT ![account1].balance = @ - amount]
        credited == [debited EXCEPT ![account1].balance = @ + amount]
        logged1 == transaction_log(credited, account1, "Transfer to " \o account2,
                                   amount, time, "Cash transfer")
    IN  transaction_log(logged1, account2, "Transfer from " \o account1,
                        amount, time, "Cash transfer")

\* slip: the source account is not debited
transfer_apply_no_debit(account1, account2, amount, time) ==
    LET credited == [accounts EXCEPT ![account2].balance = @ + amount]
        logged1 == transaction_log(credited, account1, "Transfer to " \o account2,
                                   amount, time, "Cash transfer")
    IN  transaction_log(logged1, account2, "Transfer from " \o account1,
                        amount, time, "Cash transfer")

\* the registry after the two balance updates and the two log entries of
\* transfer, in the order the code makes them
transfer_apply(account1, account2, amount, time) ==
    LET debited == [accounts EXCEPT ![account1].balance = @ - amount]
        credited == [debited EXCEPT ![account2].balance = @ + amount]
        logged1 == transaction_log(credited, account1, "Transfer to " \o account2,
                                   amount, time, "Cash transfer")
    IN  transaction_log(logged1, account2, "Transfer from " \o account1,
                        amount, time, "Cash transfer")

transfer(account1, account2, pin, amount) ==
    LET err == transfer_checks(account1, account2, pin, amount)
        op == "transfer"
        args == [account1 |-> account1, account2 |-> account2, pin |-> pin,
                 amount |-> amount]
    IN  IF err # OK
        THEN /\ last' = Raised(op, args, err)
             /\ before' = accounts
             /\ UNCHANGED <<accounts, clock>>
        ELSE \E time \in now :
               LET logged2 == transfer_apply(account1, account2, amount, time)
               IN  /\ TotalRecords < MaxRecords
                   /\ accounts' = logged2
                   /\ clock' = time
                   /\ before' = accounts
                   /\ last' = Returned(op, args,
                                [balance_from |-> logged2[account1].balance,
                                 balance_to |-> logged2[account2].balance])

----------------------------------------------------------------------------
(* display_account_info, display_balance, display_transaction_history *)

display_checks(account, pin) ==
    IF validate_account(account) # OK THEN validate_account(account)
    ELSE validate_pin(account, pin)

\* wall-clock readings are abstract ticks; a formatted reading is the
\* decimal rendering of the tick
strftime(time) == ToString(time)

\* the rows added to the PrettyTable, in order
account_info_rows(account) ==
    << <<"Account Number", account>>,
       <<"Account Holder", accounts[account].account_holder>>,
       <<"Balance", "₹" \o ToString(accounts[account].balance)>>,
       <<"Date of Birth", accounts[account].dob>> >>

\* slip: the rows are added newest first
transaction_history_rows_newest_first(account) ==
    [i \in 1 .. Len(accounts[account].transaction_history) |->
        LET n == Len(accounts[account].transaction_history)
            transaction == accounts[account].transaction_history[n + 1 - i]
        IN  <<transaction.type, ToString(transaction.amount),
              strftime(transaction.time), transaction.note>>]

transaction_history_rows(account) ==
    [i \in 1 .. Len(accounts[account].transaction_history) |->
        LET transaction == accounts[account].transaction_history[i]
        IN  <<transaction.type, ToString(transaction.amount),
              strftime(transaction.time), transaction.note>>]

display_account_info(account, pin) ==
    LET err == display_checks(account, pin)
        op == "display_account_info"
        args == [account |-> account, pin |-> pin]
    IN  /\ last' = IF err # OK THEN Raised(op, args, err)
                   ELSE Returned(op, args, account_info_rows(account))
        /\ before' = accounts
        /\ UNCHANGED <<accounts, clock>>

display_balance(account, pin) ==
    LET err == display_checks(account, pin)
        op == "display_balance"
        args == [account |-> account, pin |-> pin]
    IN  /\ last' = IF err # OK THEN Raised(op, args, err)
                   ELSE Returned(op, args, [balance |-> accounts[account].balance])
        /\ before' = accounts
        /\ UNCHANGED <<accounts, clock>>

display_transaction_history(account, pin) ==
    LET err == display_checks(account, pin)
        op == "display_transaction_history"
        args == [account |-> account, pin |-> pin]
    IN  /\ last' = IF err # OK THEN Raised(op, args, err)
                   ELSE Returned(op, args, transaction_history_rows(account))
        /\ before' = accounts
        /\ UNCHANGED <<accounts, clock>>

----------------------------------------------------------------------------
(* The ledger as a state machine *)

\* Bank.__init__: an empty registry; no call made yet.  The ledger is built
\* when the clock shows its last tick, so every reading of a run of Spec is
\* that tick; readings that differ are explored by SpecCreation below.
Init ==
    /\ accounts = <<>>
    /\ clock = LastTick
    /\ last = Returned("__init__", None, None)
    /\ before = <<>>

Next ==
    \/ \E name \in Names, balance \in OpeningBalances, dob \in DobInputs,
          pin \in PinArgs, today \in Todays :
            account_creation(name, balance, dob, pin, today)
    \/ \E account \in AccountArgs, pin \in Pins, amount \in Amounts :
            deposit(account, pin, amount)
    \/ \E account \in AccountArgs, pin \in Pins, amount \in Amounts :
            withdrawal(account, pin, amount)
    \/ \E account1 \in AccountArgs, account2 \in AccountArgs, pin \in Pins,
          amount \in Amounts :
            transfer(account1, account2, pin, amount)
    \/ \E account \in AccountArgs, pin \in Pins : display_account_info(account, pin)
    \/ \E account \in AccountArgs, pin \in Pins : display_balance(account, pin)
    \/ \E account \in AccountArgs, pin \in Pins :
            display_transaction_history(account, pin)

Spec == Init /\ [][Next]_vars

----------------------------------------------------------------------------
(* One account_creation on a new ledger, over wider arguments: dates of    *)
(* birth and current dates around the age limits and the end of February, *)
(* pins around both ends of the range, and a clock that still moves.       *)

\* date.isoformat: the text "YYYY-MM-DD" of a date
isoformat(y, m, d) ==
    zfill(ToString(y), 4) \o "-" \o zfill(ToString(m), 2) \o "-" \o zfill(ToString(d), 2)

BirthYears == {1945, 1946, 2006, 2008}

BirthMonths == {2, 3, 11}

BirthDays == {1, 4, 5, 28, 29}

\* dob argument: every combination above (some are not dates of the
\* calendar) and the texts of DobInputs
CreationDobs ==
    {isoformat(y, m, d) : y \in BirthYears, m \in BirthMonths, d \in BirthDays}
      \cup DobInputs

\* values of datetime.date.today()
CreationTodays == {<<2026, 11, 4>>, <<2026, 2, 28>>, <<2026, 3, 1>>, <<2024, 2, 29>>}

\* pin argument
CreationPins == {None, <<PIN_LO - 1>>, <<PIN_LO>>, <<1234>>, <<PIN_HI>>, <<PIN_HI + 1>>}

\* Bank.__init__, at the first tick of the clock
InitCreation ==
    /\ accounts = <<>>
    /\ clock = 0
    /\ last = Returned("__init__", None, None)
    /\ before = <<>>

\* the first call made on the ledger is an account_creation
NextCreation ==
    /\ last.op = "__init__"
    /\ \E name \in Names, balance \in OpeningBalances, dob \in CreationDobs,
          pin \in CreationPins, today \in CreationTodays :
            account_creation(name, balance, dob, pin, today)

SpecCreation == InitCreation /\ [][NextCreation]_vars

----------------------------------------------------------------------------
(* account_creation step by step through generate_account_number: the     *)
(* checks and the pin first, then one step per draw of a suffix and one    *)
(* per membership test, the rest of the method on leaving the loop.  While *)
(* the call is in the loop `last` holds it with its local variables: the   *)
(* pin, and the identifier drawn (<<>> before a draw).                     *)

\* the call op(args) is inside generate_account_number with these locals
Running(op, args, locals) ==
    [op |-> op, args |-> args, err |-> "running", ret |-> locals]

InLoop == last.err = "running"

\* bank.py 76-93: the checks and the pin; a call is made only when none runs
account_creation_enter(name, balance, dob, pin, today) ==
    LET err == account_creation_checks(balance, dob, today)
        op == "account_creation"
        args == [name |-> name, balance |-> balance, dob |-> dob,
                 pin |-> pin, today |-> today]
    IN  /\ ~InLoop
        /\ before' = accounts
        /\ UNCHANGED <<accounts, clock>>
        /\ IF err # OK
           THEN last' = Raised(op, args, err)
           ELSE \E p \in effective_pin(pin) :
                   last' = Running(op, args, [pin |-> p, drawn |-> <<>>])

\* slip: the random source returns the same suffix at every draw
generate_draw_stuck(suffix) ==
    /\ InLoop
    /\ last.ret.drawn = <<>>
    /\ last' = [last EXCEPT !.ret.drawn = <<AccountNumber(0)>>]
    /\ UNCHANGED <<accounts, clock, before>>

\* bank.py 38-39: random.randint returns suffix
generate_draw(suffix) ==
    /\ InLoop
    /\ last.ret.drawn = <<>>
    /\ last' = [last EXCEPT !.ret.drawn = <<AccountNumber(suffix)>>]
    /\ UNCHANGED <<accounts, clock, before>>

\* bank.py 40-42 and 95-116: on a collision back to the draw, otherwise out
\* of the loop and through the rest of account_creation
generate_test ==
    /\ InLoop
    /\ last.ret.drawn # <<>>
    /\ IF last.ret.drawn[1] \in DOMAIN accounts
       THEN /\ last' = [last EXCEPT !.ret.drawn = <<>>]
            /\ UNCHANGED <<accounts, clock, before>>
       ELSE \E created_at \in now :
              LET account_number == last.ret.drawn[1]
                  args == last.args
              IN  /\ accounts' = [id \in DOMAIN accounts \cup {account_number} |->
                         IF id = account_number
                         THEN new_account(args.name, args.balance, strptime(args.dob),
                                          last.ret.pin, created_at)
                         ELSE accounts[id]]
                  /\ clock' = created_at
                  /\ before' = accounts
                  /\ last' = Returned(last.op, args,
                                      [account_number |-> account_number,
                                       pin |-> last.ret.pin])

NextGeneration ==
    \/ \E name \in Names, balance \in OpeningBalances, dob \in DobInputs,
          pin \in PinArgs, today \in Todays :
            account_creation_enter(name, balance, dob, pin, today)
    \/ \E suffix \in Suffixes : generate_draw(suffix)
    \/ generate_test

\* The interpreter keeps running the loop (weak fairness of the test), and
\* the random source is fair: a suffix that can be drawn again and again is
\* drawn (strong fairness of each draw).  Callers need never call.
SpecGeneration ==
    /\ Init
    /\ [][NextGeneration]_vars
    /\ WF_vars(generate_test)
    /\ \A suffix \in Suffixes : SF_vars(generate_draw(suffix))

----------------------------------------------------------------------------
(* Vocabulary of the properties.  A property of a call is stated on the    *)
(* state the call leaves: `before` is the registry the call found, `last`  *)
(* the call and its outcome, `accounts` the registry it left.              *)

History(accts, id) == accts[id].transaction_history

Balance(accts, id) == accts[id].balance

LastRecord(accts, id) == History(accts, id)[Len(History(accts, id))]

\* the call left the history of id longer by exactly n records, the old
\* records in place
Gained(id, n) ==
    /\ Len(History(accounts, id)) = Len(History(before, id)) + n
    /\ SubSeq(History(accounts, id), 1, Len(History(before, id)))
         = History(before, id)

\* id existed when the call was made
Existed(id) == id \in DOMAIN before

PinGated == {"deposit", "withdrawal", "transfer", "display_balance",
             "display_account_info", "display_transaction_history"}

\* the account whose pin the last call is checked against
ActsOn == IF last.op = "transfer" THEN last.args.account1 ELSE last.args.account

Called(op) == last.op = op

Succeeded == last.err = OK

----------------------------------------------------------------------------
(* C1: in every reachable state every account's balance is at least        *)
(* MIN_BALANCE.                                                            *)
C1_BalanceAtLeastMin ==
    \A id \in DOMAIN accounts : Balance(accounts, id) >= MIN_BALANCE

\* an account that is back at exactly MIN_BALANCE after a deposit and a debit
C1_Witness ==
    \E id \in DOMAIN accounts :
        /\ Balance(accounts, id) = MIN_BALANCE
        /\ Len(History(accounts, id)) >= 3

(* C2: a call that raises leaves the registry exactly as it was: the same  *)
(* accounts with the same balances, pins and histories.                    *)
C2_FailureLeavesRegistry ==
    ~Succeeded => accounts = before

\* a debit was refused for its amount
C2_Witness ==
    /\ last.op \in {"withdrawal", "transfer"}
    /\ last.err = "InsufficientBalanceError"

(* C3: a transfer of A from X to Y (both existing, X's pin correct)        *)
(* succeeds only if Bx - A >= MIN_BALANCE.  On success between two         *)
(* different accounts X ends at Bx - A, Y at By + A, and each gains        *)
(* exactly one record naming the other account; on success from an         *)
(* account to itself the balance is unchanged and the account gains both   *)
(* records.                                                                *)
C3_TransferCase ==
    /\ Called("transfer")
    /\ Existed(last.args.account1)
    /\ Existed(last.args.account2)
    /\ last.args.pin = before[last.args.account1].pin

C3_SucceedsOnlyIf ==
    Succeeded =>
        Balance(before, last.args.account1) - last.args.amount >= MIN_BALANCE

C3_EffectOnPair(x, y, A) ==
    /\ Balance(accounts, x) = Balance(before, x) - A
    /\ Balance(accounts, y) = Balance(before, y) + A
    /\ Gained(x, 1)
    /\ Gained(y, 1)
    /\ LastRecord(accounts, x).type = "Transfer to " \o y
    /\ LastRecord(accounts, y).type = "Transfer from " \o x

C3_EffectOnSelf(x, A) ==
    /\ Balance(accounts, x) = Balance(before, x)
    /\ Gained(x, 2)
    /\ History(accounts, x)[Len(History(before, x)) + 1].type
         = "Transfer to " \o x
    /\ LastRecord(accounts, x).type = "Transfer from " \o x

\* C3, as amended: the three parts above, for every transfer call
C3_Transfer ==
    C3_TransferCase =>
        /\ C3_SucceedsOnlyIf
        /\ (Succeeded /\ last.args.account1 # last.args.account2
              => C3_EffectOnPair(last.args.account1, last.args.account2,
                                 last.args.amount))
        /\ (Succeeded /\ last.args.account1 = last.args.account2
              => C3_EffectOnSelf(last.args.account1, last.args.amount))

\* the claim as written: the effect on X and Y for any two existing accounts
C3_AsWritten ==
    C3_TransferCase =>
        /\ C3_SucceedsOnlyIf
        /\ (Succeeded
              => C3_EffectOnPair(last.args.account1, last.args.account2,
                                 last.args.amount))

\* a transfer between two different accounts has just succeeded
C3_Witness ==
    /\ Called("transfer")
    /\ Succeeded
    /\ last.args.account1 # last.args.account2
    /\ Balance(accounts, last.args.account2)
         = Balance(before, last.args.account2) + last.args.amount

(* C4: a pin-gated call whose pin differs from the stored pin of the       *)
(* account it acts on (and, for transfer, whose destination account        *)
(* exists) raises InvalidPinError and changes no balance and no history.   *)
C4_WrongPinCase ==
    /\ last.op \in PinGated
    /\ Existed(ActsOn)
    /\ last.args.pin # before[ActsOn].pin

C4_Refused ==
    /\ last.err = "InvalidPinError"
    /\ \A id \in DOMAIN before :
          /\ id \in DOMAIN accounts
          /\ Balance(accounts, id) = Balance(before, id)
          /\ History(accounts, id) = History(before, id)

\* C4, as amended: a wrong pin is refused with InvalidPinError, nothing changed
C4_WrongPin ==
    C4_WrongPinCase /\ (Called("transfer") => Existed(last.args.account2))
        => C4_Refused

\* the claim as written: no condition on the destination of a transfer
C4_AsWritten ==
    C4_WrongPinCase => C4_Refused

\* a transfer between existing accounts was refused for its pin
C4_Witness ==
    /\ Called("transfer")
    /\ last.err = "InvalidPinError"
    /\ last.args.pin # accounts[last.args.account1].pin

(* C5: deposit, withdrawal and transfer report the first violated check in *)
(* the order account existence (source, then destination), pin, amount,    *)
(* balance sufficiency, whatever later checks are violated as well.        *)
C5_Insufficient ==
    /\ last.op \in {"withdrawal", "transfer"}
    /\ Balance(before, ActsOn) - last.args.amount < MIN_BALANCE

C5_Expected ==
    IF ~Existed(ActsOn) THEN "AccountNotFound"
    ELSE IF Called("transfer") /\ ~Existed(last.args.account2)
      THEN "AccountNotFound"
    ELSE IF last.args.pin # before[ActsOn].pin THEN "InvalidPinError"
    ELSE IF last.args.amount <= 0 THEN "InvalidAmountError"
    ELSE IF C5_Insufficient THEN "InsufficientBalanceError"
    ELSE OK

\* C5: the exception raised is that of the first violated check
C5_FirstViolatedCheck ==
    last.op \in {"deposit", "withdrawal", "transfer"} => last.err = C5_Expected

\* a withdrawal with a wrong pin and a non-positive amount reported the pin
C5_Witness ==
    /\ Called("withdrawal")
    /\ last.err = "InvalidPinError"
    /\ last.args.amount <= 0

(* C6: for an existing account, the correct pin and an amount > 0,         *)
(* withdrawal raises InsufficientBalanceError exactly when                 *)
(* balance - amount < MIN_BALANCE and then leaves the balance unchanged;   *)
(* otherwise it succeeds, decreases the balance by amount, returns the new *)
(* balance and appends one Withdrawal record.                              *)
C6_WithdrawalCase ==
    /\ Called("withdrawal")
    /\ Existed(last.args.account)
    /\ last.args.pin = before[last.args.account].pin
    /\ last.args.amount > 0

\* C6: refused exactly when the balance would fall below MIN_BALANCE
C6_Withdrawal ==
    C6_WithdrawalCase =>
        LET a == last.args.account
            amount == last.args.amount
        IN  IF Balance(before, a) - amount < MIN_BALANCE
            THEN /\ last.err = "InsufficientBalanceError"
                 /\ Balance(accounts, a) = Balance(before, a)
            ELSE /\ Succeeded
                 /\ Balance(accounts, a) = Balance(before, a) - amount
                 /\ last.ret.balance = Balance(before, a) - amount
                 /\ Gained(a, 1)
                 /\ LastRecord(accounts, a).type = "Withdrawal"
                 /\ LastRecord(accounts, a).amount = amount
                 /\ LastRecord(accounts, a).note = "Cash withdrawal"

\* a withdrawal that left exactly MIN_BALANCE succeeded
C6_Witness ==
    /\ C6_WithdrawalCase
    /\ Succeeded
    /\ last.ret.balance = MIN_BALANCE

(* C7: a deposit of D > 0 into an existing account of balance B with the   *)
(* correct pin succeeds; a withdrawal of D from the same account with the  *)
(* same pin made as the next call succeeds too, brings the balance back to *)
(* B, and the two calls together append exactly a Deposit of D then a      *)
(* Withdrawal of D.                                                        *)
C7_DepositStep ==
    (/\ last'.op = "deposit"
     /\ last'.args.account \in DOMAIN accounts
     /\ last'.args.pin = accounts[last'.args.account].pin
     /\ last'.args.amount > 0)
    => (/\ last'.err = OK
        /\ Balance(accounts', last'.args.account)
             = Balance(accounts, last'.args.account) + last'.args.amount)

C7_RoundTripStep ==
    (/\ Called("deposit")
     /\ Succeeded
     /\ last'.op = "withdrawal"
     /\ last'.args = last.args)
    => (LET a == last.args.account
            D == last.args.amount
            n == Len(History(before, a))
        IN  /\ last'.err = OK
            /\ Balance(accounts', a) = Balance(before, a)
            /\ Len(History(accounts', a)) = n + 2
            /\ SubSeq(History(accounts', a), 1, n) = History(before, a)
            /\ History(accounts', a)[n + 1].type = "Deposit"
            /\ History(accounts', a)[n + 1].amount = D
            /\ History(accounts', a)[n + 2].type = "Withdrawal"
            /\ History(accounts', a)[n + 2].amount = D)

\* C7: every deposit step and every deposit-then-withdrawal pair of steps
C7_DepositWithdrawalRoundTrip ==
    [][C7_DepositStep /\ C7_RoundTripStep]_vars

\* a withdrawal of D has succeeded on an account whose previous record is a
\* cash deposit of D
C7_Witness ==
    /\ Called("withdrawal")
    /\ Succeeded
    /\ LET h == History(before, last.args.account)
       IN  /\ h[Len(h)].type = "Deposit"
           /\ h[Len(h)].note = "Cash deposit"
           /\ h[Len(h)].amount = last.args.amount
    /\ LastRecord(accounts, last.args.account).type = "Withdrawal"

(* C8: the registry never holds more than MAX_ACCOUNTS accounts, and an    *)
(* account_creation call made on a registry of MAX_ACCOUNTS accounts       *)
(* raises LimitError.                                                      *)
C8_AccountLimit ==
    /\ Cardinality(DOMAIN accounts) <= MAX_ACCOUNTS
    /\ (Called("account_creation")
          /\ Cardinality(DOMAIN before) = MAX_ACCOUNTS
          => last.err = "LimitError")

\* a creation was refused on a full registry
C8_Witness ==
    /\ Called("account_creation")
    /\ last.err = "LimitError"
    /\ Cardinality(DOMAIN accounts) = MAX_ACCOUNTS

(* C9: a successful account_creation returns an identifier made of the     *)
(* 6-character prefix and a 4-digit suffix that was not in the registry,   *)
(* adds exactly that account and leaves every other account unchanged.     *)
C9_WellFormed(id) ==
    /\ Len(id) = 10
    /\ SubSeq(id, 1, 6) = ACCOUNT_PREFIX
    /\ \A i \in 7 .. 10 : SubSeq(id, i, i) \in Digits

\* C9: the new identifier is well formed and new; nothing else changes
C9_FreshIdentifier ==
    Called("account_creation") /\ Succeeded =>
        LET id == last.ret.account_number
        IN  /\ C9_WellFormed(id)
            /\ ~Existed(id)
            /\ DOMAIN accounts = DOMAIN before \cup {id}
            /\ \A other \in DOMAIN before : accounts[other] = before[other]

\* an account was created next to an existing one
C9_Witness ==
    /\ Called("account_creation")
    /\ Succeeded
    /\ before # <<>>
    /\ last.ret.account_number \in DOMAIN accounts

(* C10: account_creation reports the first violated check in the order     *)
(* registry full, date of birth unparsable, age outside                    *)
(* [MIN_AGE, MAX_AGE], opening balance below MIN_BALANCE.                  *)
C10_Unparsable == strptime(last.args.dob) = <<>>

C10_AgeOutOfRange ==
    LET age == Age(last.args.today, strptime(last.args.dob))
    IN  age < MIN_AGE \/ age > MAX_AGE

C10_Expected ==
    IF Cardinality(DOMAIN before) = MAX_ACCOUNTS THEN "LimitError"
    ELSE IF C10_Unparsable THEN "InvalidDateFormatError"
    ELSE IF C10_AgeOutOfRange THEN "InvalidAgeError"
    ELSE IF last.args.balance < MIN_BALANCE THEN "InvalidAmountError"
    ELSE OK

\* C10: the exception raised is that of the first violated check
C10_CreationCheckOrder ==
    Called("account_creation") => last.err = C10_Expected

\* a full registry reported LimitError although the date was unparsable too
C10_Witness ==
    /\ Called("account_creation")
    /\ last.err = "LimitError"
    /\ C10_Unparsable

\* an out-of-range age was reported although the opening balance was too low
C10_WitnessAge ==
    /\ Called("account_creation")
    /\ last.err = "InvalidAgeError"
    /\ last.args.balance < MIN_BALANCE

----------------------------------------------------------------------------
(* C11: a successful account_creation returns the pin it stored, and that  *)
(* pin is in 1000..9999: the pin supplied when that one is in the range,   *)
(* a generated one when none was supplied or the supplied one is outside   *)
(* the range.  Every stored pin of every reachable state is in the range.  *)

C11_InRange(p) == 1000 <= p /\ p <= 9999

C11_EffectivePin ==
    /\ (Called("account_creation") /\ Succeeded) =>
          LET p == last.ret.pin
              given == last.args.pin
          IN  /\ p = accounts[last.ret.account_number].pin
              /\ C11_InRange(p)
              /\ (given # None /\ C11_InRange(given[1])) => p = given[1]
    /\ \A id \in DOMAIN accounts : C11_InRange(accounts[id].pin)

\* an account was opened with a pin just above the range supplied
C11_Witness ==
    /\ Called("account_creation")
    /\ Succeeded
    /\ last.args.pin = <<10000>>
    /\ C11_InRange(last.ret.pin)

----------------------------------------------------------------------------
(* C12: right after a successful account_creation with opening balance b   *)
(* the new account's balance is b and its history is exactly one record:   *)
(* a Deposit of b, noted "Opening balance", stamped with the account's     *)
(* creation timestamp.                                                      *)

C12_OpeningRecord ==
    (Called("account_creation") /\ Succeeded) =>
        LET id == last.ret.account_number
            b == last.args.balance
        IN  /\ ~Existed(id)
            /\ Balance(accounts, id) = b
            /\ History(accounts, id) =
                  << [type |-> "Deposit", amount |-> b,
                      time |-> accounts[id].creation_time,
                      note |-> "Opening balance"] >>

\* an account was opened after the clock had moved on
C12_Witness ==
    /\ Called("account_creation")
    /\ Succeeded
    /\ accounts[last.ret.account_number].creation_time > 0
    /\ Len(History(accounts, last.ret.account_number)) = 1

----------------------------------------------------------------------------
(* C13: for a date of birth that parses, the age account_creation computes *)
(* is the number of birthdays reached by the current date (the difference  *)
(* of the years, less one when today's month and day come before the       *)
(* birthday's), and the call raises InvalidAgeError exactly when that age  *)
(* is under 18 or over 80.                                                  *)

\* date a is not after date b
C13_NotAfter(a, b) ==
    \/ a[1] < b[1]
    \/ a[1] = b[1] /\ a[2] < b[2]
    \/ a[1] = b[1] /\ a[2] = b[2] /\ a[3] <= b[3]

\* the k-th birthday of someone born on dob
C13_Birthday(dob_date, k) == <<dob_date[1] + k, dob_date[2], dob_date[3]>>

\* the last birthday reached on today
C13_AgeOn(today, dob_date) ==
    CHOOSE a \in -10 .. 150 :
        /\ C13_NotAfter(C13_Birthday(dob_date, a), today)
        /\ ~C13_NotAfter(C13_Birthday(dob_date, a + 1), today)

C13_AgeRule ==
    (Called("account_creation") /\ strptime(last.args.dob) # <<>>) =>
        LET today == last.args.today
            dob_date == strptime(last.args.dob)
        IN  /\ Age(today, dob_date) = C13_AgeOn(today, dob_date)
            /\ last.err = "InvalidAgeError"
                  <=> (C13_AgeOn(today, dob_date) < 18 \/ C13_AgeOn(today, dob_date) > 80)

\* the holder turns 18 on the day of the call and is accepted
C13_Witness ==
    /\ Called("account_creation")
    /\ strptime(last.args.dob) # <<>>
    /\ last.args.today = C13_Birthday(strptime(last.args.dob), 18)
    /\ last.err # "InvalidAgeError"
    /\ Succeeded

----------------------------------------------------------------------------
(* C14: the history of an account only grows at its end: across every      *)
(* step an account stays in the registry and its old history is a prefix   *)
(* of its new one; so the first record of every history is, at all times,  *)
(* the opening Deposit the account was created with.                        *)

C14_IsPrefix(s, t) == Len(s) <= Len(t) /\ SubSeq(t, 1, Len(s)) = s

C14_StepAppends ==
    \A id \in DOMAIN accounts :
        /\ id \in DOMAIN accounts'
        /\ C14_IsPrefix(accounts[id].transaction_history,
                        accounts'[id].transaction_history)

C14_OpeningFirst ==
    \A id \in DOMAIN accounts :
        /\ History(accounts, id) # <<>>
        /\ History(accounts, id)[1].type = "Deposit"
        /\ History(accounts, id)[1].note = "Opening balance"
        /\ History(accounts, id)[1].time = accounts[id].creation_time
        /\ (Called("account_creation") /\ Succeeded
              /\ id = last.ret.account_number)
             => History(accounts, id)[1].amount = last.args.balance

C14_AppendOnly == [][C14_StepAppends]_vars /\ []C14_OpeningFirst

\* an operation has just added to a history that had two records
C14_Witness ==
    /\ Called("withdrawal")
    /\ Succeeded
    /\ Len(History(before, last.args.account)) = 2
    /\ Len(History(accounts, last.args.account)) = 3
    /\ History(accounts, last.args.account)[1].note = "Opening balance"

----------------------------------------------------------------------------
(* C15: an account that exists keeps existing, and its holder name, date   *)
(* of birth, pin and creation timestamp never change; deposit, withdrawal  *)
(* and transfer add no account and leave every account other than the one  *)
(* or two they name exactly as it was.                                      *)

C15_Named ==
    IF Called("transfer") THEN {last.args.account1, last.args.account2}
    ELSE IF last.op \in {"deposit", "withdrawal"} THEN {last.args.account}
    ELSE {}

C15_Frame ==
    /\ \A id \in DOMAIN before :
          /\ id \in DOMAIN accounts
          /\ accounts[id].account_holder = before[id].account_holder
          /\ accounts[id].dob = before[id].dob
          /\ accounts[id].pin = before[id].pin
          /\ accounts[id].creation_time = before[id].creation_time
    /\ last.op \in {"deposit", "withdrawal", "transfer"} =>
          /\ DOMAIN accounts = DOMAIN before
          /\ \A id \in DOMAIN before \ C15_Named : accounts[id] = before[id]

\* a deposit went through while another account was in the registry
C15_Witness ==
    /\ Called("deposit")
    /\ Succeeded
    /\ DOMAIN before \ {last.args.account} # {}
    /\ Balance(accounts, last.args.account) # Balance(before, last.args.account)

----------------------------------------------------------------------------
(* C16: display_account_info, display_balance and                           *)
(* display_transaction_history leave the whole registry as it was, whether *)
(* they succeed or fail; on success display_balance returns the current    *)
(* balance, and display_transaction_history one row per record of the      *)
(* history, in the stored order, oldest first.                              *)

C16_Displays ==
    {"display_account_info", "display_balance", "display_transaction_history"}

C16_RowOf(transaction, row) ==
    /\ row[1] = transaction.type
    /\ row[2] = ToString(transaction.amount)
    /\ row[4] = transaction.note

C16_ReadOnly ==
    last.op \in C16_Displays =>
        /\ accounts = before
        /\ (Called("display_balance") /\ Succeeded) =>
              last.ret.balance = Balance(accounts, last.args.account)
        /\ (Called("display_transaction_history") /\ Succeeded) =>
              /\ Len(last.ret) = Len(History(accounts, last.args.account))
              /\ \A i \in 1 .. Len(last.ret) :
                    C16_RowOf(History(accounts, last.args.account)[i], last.ret[i])

\* a history of an opening deposit and a later record was displayed
C16_Witness ==
    /\ Called("display_transaction_history")
    /\ Succeeded
    /\ Len(last.ret) >= 2
    /\ last.ret[1][4] = "Opening balance"
    /\ last.ret[2][4] # "Opening balance"

----------------------------------------------------------------------------
(* C18: every transaction record of every history has a strictly positive  *)
(* amount, the opening Deposit and the two records of a transfer included. *)

C18_PositiveAmounts ==
    \A id \in DOMAIN accounts :
        \A i \in 1 .. Len(History(accounts, id)) :
            History(accounts, id)[i].amount > 0

\* a transfer between two accounts has just been logged on both
C18_Witness ==
    /\ Called("transfer")
    /\ Succeeded
    /\ last.args.account1 # last.args.account2
    /\ LastRecord(accounts, last.args.account1).amount = last.args.amount
    /\ LastRecord(accounts, last.args.account2).amount = last.args.amount

----------------------------------------------------------------------------
(* C19: the balance of every account is the net of its own history: the    *)
(* amounts of its Deposit and "Transfer from ..." records less the amounts *)
(* of its Withdrawal and "Transfer to ..." records; a transfer of an       *)
(* account to itself keeps this.                                            *)

\* the text s begins with the text p
C19_StartsWith(s, p) == Len(s) >= Len(p) /\ SubSeq(s, 1, Len(p)) = p

C19_Signed(transaction) ==
    IF transaction.type = "Deposit"
         \/ C19_StartsWith(transaction.type, "Transfer from ")
    THEN transaction.amount
    ELSE IF transaction.type = "Withdrawal"
              \/ C19_StartsWith(transaction.type, "Transfer to ")
    THEN 0 - transaction.amount
    ELSE 0

RECURSIVE C19_Net(_)
C19_Net(history) ==
    IF history = <<>> THEN 0
    ELSE C19_Net(SubSeq(history, 1, Len(history) - 1))
           + C19_Signed(history[Len(history)])

C19_BalanceIsNet ==
    \A id \in DOMAIN accounts :
        Balance(accounts, id) = C19_Net(History(accounts, id))

\* an account has just transferred to itself
C19_Witness ==
    /\ Called("transfer")
    /\ Succeeded
    /\ last.args.account1 = last.args.account2
    /\ Gained(last.args.account1, 2)

----------------------------------------------------------------------------
(* C20: a transfer, successful or failed, between any two identifiers      *)
(* (the same one twice included) leaves the sum of all balances as it was; *)
(* the sum changes only by the opening balance of a successful             *)
(* account_creation, by +amount of a successful deposit and by -amount of  *)
(* a successful withdrawal.                                                 *)

RECURSIVE C20_Sum(_, _)
C20_Sum(accts, ids) ==
    IF ids = {} THEN 0
    ELSE LET id == CHOOSE x \in ids : TRUE
         IN  accts[id].balance + C20_Sum(accts, ids \ {id})

C20_Total(accts) == C20_Sum(accts, DOMAIN accts)

C20_Change ==
    IF ~Succeeded THEN 0
    ELSE IF Called("account_creation") THEN last.args.balance
    ELSE IF Called("deposit") THEN last.args.amount
    ELSE IF Called("withdrawal") THEN 0 - last.args.amount
    ELSE 0

C20_Conservation == C20_Total(accounts) = C20_Total(before) + C20_Change

\* money has just moved between two accounts
C20_Witness ==
    /\ Called("transfer")
    /\ Succeeded
    /\ last.args.account1 # last.args.account2
    /\ Balance(accounts, last.args.account2)
          = Balance(before, last.args.account2) + last.args.amount
    /\ C20_Total(accounts) >= 250

----------------------------------------------------------------------------
(* C17: whenever account_creation is generating an identifier (the         *)
(* registry is below MAX_ACCOUNTS and the checks have passed) some         *)
(* identifier with the prefix is free; under a fair random choice of       *)
(* suffixes the retry loop ends, and the call returns an identifier that   *)
(* was not in the registry.  A registry of MAX_ACCOUNTS - 1 accounts is no *)
(* exception.                                                               *)

C17_SomeIdentifierFree ==
    InLoop =>
        /\ Cardinality(DOMAIN accounts) < MAX_ACCOUNTS
        /\ generate_account_number # {}

C17_ReturnsFree ==
    (Called("account_creation") /\ Succeeded) =>
        /\ ~Existed(last.ret.account_number)
        /\ last.ret.account_number \in DOMAIN accounts

C17_LoopEnds ==
    InLoop ~> (Called("account_creation") /\ Succeeded)

C17_GenerationTerminates ==
    /\ []C17_SomeIdentifierFree
    /\ []C17_ReturnsFree
    /\ C17_LoopEnds

\* with one identifier left the loop has drawn one that is taken
C17_Witness ==
    /\ InLoop
    /\ Cardinality(DOMAIN accounts) = MAX_ACCOUNTS - 1
    /\ last.ret.drawn # <<>>
    /\ last.ret.drawn[1] \in DOMAIN accounts

====
